---------------------------- MODULE Spec2Model ----------------------------
(***************************************************************************)
(* State-machine model of the AutoDub browser client, scripts/app.js:      *)
(* the Dub form (submit -> POST /api/dub -> EventSource progress stream)   *)
(* and the Download-only panel (fetch info -> start download ->            *)
(* EventSource progress stream -> save button).                            *)
(*                                                                         *)
(* Everything runs on the browser's single event loop, so every handler    *)
(* (and every continuation after an await) is one atomic action.           *)
(*                                                                         *)
(* Strings that the code trims are sequences of characters; all other      *)
(* texts (messages, translation keys) are opaque strings.  tr(key) is      *)
(* modelled by the English table.  Cosmetic DOM state tied one-to-one to   *)
(* a modelled field (button label/loader visibility, bar width, step-line  *)
(* classes, scroll positions) is left out, and so is the toast's dismiss   *)
(* timer: no handler reads toast.hidden.                                   *)
(***************************************************************************)
EXTENDS Integers, Sequences, FiniteSets, TLC

(* ------------------------------ bounds -------------------------------- *)

\* Job ids the server hands out over one page lifetime (both kinds together).
MaxJobs == 2

\* Items (messages or an error) the transport delivers per progress stream.
MaxEvents == 2

\* Download jobs of a visit in which the save button is used.
MaxDownloads == 1

(* --------------------------- program constants ------------------------ *)

STEP_ORDER == <<"init", "download", "transcribe", "translate", "synthesize", "render">>

\* STEP_ORDER.indexOf(step): 0-based position, -1 when absent.
IndexOf(step) ==
    IF \E i \in 1..Len(STEP_ORDER) : STEP_ORDER[i] = step
    THEN (CHOOSE i \in 1..Len(STEP_ORDER) : STEP_ORDER[i] = step) - 1
    ELSE -1

StepIdx == 0..(Len(STEP_ORDER) - 1)

\* tr(key) for the "en" table (only the keys the handlers use).
tr(key) ==
    CASE key = "toastNoUrl"      -> "Please enter a YouTube URL."
      [] key = "toastComplete"   -> "Dubbing complete!"
      [] key = "toastDisconnect" -> "Lost connection to server."
      [] key = "dlDownloading"   -> "Downloading..."
      [] key = "dlComplete"      -> "Download ready!"
      [] key = "fetchingInfo"    -> "Searching..."
      [] OTHER                   -> key

(* ------------------------------ inputs -------------------------------- *)

\* What the user may type into a URL field (the fields start empty).
UrlTexts == { <<" ">>, <<" ", "u", " ">> }

IsSpace(c) == c = " "

RECURSIVE TrimStart(_)
TrimStart(s) == IF s # <<>> /\ IsSpace(Head(s)) THEN TrimStart(Tail(s)) ELSE s

RECURSIVE TrimEnd(_)
TrimEnd(s) ==
    IF s # <<>> /\ IsSpace(s[Len(s)]) THEN TrimEnd(SubSeq(s, 1, Len(s) - 1)) ELSE s

\* The field's value taken untrimmed.
TrimNothing(s) == s

\* String.prototype.trim
Trim(s) == TrimEnd(TrimStart(s))

\* Fields of a decoded progress event.  -1 is the "unknown" progress sentinel.
EvSteps    == { STEP_ORDER[i] : i \in 1..Len(STEP_ORDER) } \cup {"heartbeat", "bogus"}
EvProgress == {-1, 40, 250}
EvMessages == {"", "m"}
EvStatus   == {"running", "complete", "error"}

ProgressEvents ==
    [step : EvSteps, progress : EvProgress, message : EvMessages, status : EvStatus]

\* A small alphabet for the runs that are about the control flow of both
\* flows rather than about what an event displays.
FlowEvents ==
    [step : {"download", "heartbeat"}, progress : {40}, message : {"", "m"}, status : EvStatus]

\* Responses to a job-creation request.
HttpErrorStatus == {404, 500}
NoDetail        == "<none>"
Details         == {NoDetail, "", "queue full"}
FetchFailures   == {"Failed to fetch"}

ServerErrorText(status) ==
    CASE status = 404 -> "Server error 404"
      [] status = 500 -> "Server error 500"

ErrorText(status) ==
    CASE status = 404 -> "Error 404"
      [] status = 500 -> "Error 500"

\* Titles are sequences of characters: the save handler rewrites them
\* character by character.
LongTitle == <<"a", "\\", "/", ":", "*", "?", "\"", "<", ">", "|", ".", " ", "_">>

\* Bodies of a successful POST /api/video-info.
VideoInfos ==
    { [present |-> TRUE, title |-> LongTitle,
       video_formats |-> <<"v1", "v2">>, audio_formats |-> <<"a1">>],
      [present |-> TRUE, title |-> <<>>, video_formats |-> <<>>, audio_formats |-> <<"a1">>] }

\* videoData = null
NoVideo == [present |-> FALSE, title |-> <<>>, video_formats |-> <<>>, audio_formats |-> <<>>]

MediaTypes == {"video", "audio"}

(* ------------------------------- state -------------------------------- *)

VARIABLES
    mode,            \* active mode tab: "dub" | "download"
    toast,           \* [msg, type, hidden]
    \* Dub form
    urlInput,        \* #video-url value
    submitDisabled,  \* submitBtn.disabled
    dubFetch,        \* POST /api/dub: "idle" | "pending"
    progressSecHidden,
    progressPct,     \* number shown in #progress-pct (and the bar width)
    stepClass,       \* classes ("active", "done") of each .step, by index
    logBox,          \* messages of the .log-entry lines, oldest first
    resultHidden,    \* resultSec.hidden
    resultMeta,      \* resultMeta.textContent
    downloadHref,    \* job id in downloadLink.href (0: not set)
    \* Download panel
    dlUrl,           \* #dl-url value
    fetchInfoDisabled,
    infoFetch,       \* POST /api/video-info: "idle" | "pending"
    infoReq,         \* url in the body of the pending video-info request
    videoData,       \* last metadata received, NoVideo for null
    dlMediaType,
    formatOptions,   \* values of the <option>s of #format-select
    formatSel,       \* selected option (0: the select is empty)
    formatSectionHidden,
    dlStartDisabled,
    dlFetch,         \* POST /api/download-start: "idle" | "pending"
    dlReq,           \* body of the pending download-start request
    dlProgressHidden,
    dlPct,
    dlMsg,
    saveBtns,        \* job ids the .dl-save-btn buttons in #dl-progress are bound to
    saveDisabled,    \* job id -> saveBtn.disabled of the button made for that job
    saveFetch,       \* job id -> GET /api/download/<job id>: "idle" | "pending"
    savedName,       \* a.download of the last save triggered (<<>>: none yet)
    \* progress streams
    nextJob,         \* job ids handed out so far
    jobKind,         \* job id -> "none" | "dub" | "dl"
    jobReq,          \* job id -> body of the request that created it
    chan,            \* job id -> its EventSource: "none" | "open" | "closed"
    pending,         \* job id -> items its open stream will still hand to the handlers
    \* history
    terminals,       \* job id -> terminal outcomes signalled (complete, error, transport)
    closes,          \* job id -> evtSource.close() calls
    unlocks,         \* job id -> unlocks of the owning control by the job's handlers
    lastDone,        \* the download job whose complete event was handled last (0: none)
    invalidated,     \* a format or type was picked while the download last started
                     \* was under way
    videoUrl,        \* the url whose metadata videoData holds (<<>>: none)
    obs,             \* stage observations since the last reset: [hi, mono, complete]
    freshView        \* what a freshly loaded page shows after the same events

chrome   == <<mode, toast>>
dubCtl   == <<urlInput, submitDisabled, dubFetch>>
dubView  == <<progressSecHidden, progressPct, stepClass, logBox, resultHidden,
              resultMeta, downloadHref>>
dubHist  == <<obs, freshView>>
dubVars  == <<dubCtl, dubView, dubHist>>
dlCtl    == <<dlUrl, fetchInfoDisabled, infoFetch, infoReq, dlStartDisabled, dlFetch, dlReq>>
dlData   == <<videoData, dlMediaType, formatOptions, formatSel, formatSectionHidden>>
dlView   == <<dlProgressHidden, dlPct, dlMsg, saveBtns>>
dlSave   == <<saveDisabled, saveFetch, savedName>>
dlHist   == <<lastDone, invalidated, videoUrl>>
dlVars   == <<dlCtl, dlData, dlView, dlSave, dlHist>>
jobIds   == <<nextJob, jobKind, jobReq>>
jobHist  == <<terminals, closes, unlocks>>
jobVars  == <<jobIds, chan, pending, jobHist>>
vars     == <<chrome, dubVars, dlVars, jobVars>>

Jobs == 1..MaxJobs

NoReq == [url |-> <<>>, format_id |-> "", media_type |-> ""]

(* ------------------------------ helpers ------------------------------- *)

\* showToast(msg, type): replaces whatever toast is showing.
showToast(msg, type) ==
    [msg |-> msg, type |-> IF type = "success" THEN "success" ELSE "error", hidden |-> FALSE]

NoClasses == [i \in StepIdx |-> {}]

\* The progress view now on the page.
DubView == [pct |-> progressPct, steps |-> stepClass, log |-> logBox]

\* What the markup shows before any handler has run: [pct, steps, log].
FreshView == [pct |-> 0, steps |-> NoClasses, log |-> <<>>]

\* A reset that forgets to empty the log box.
resetProgressKeepsLog(view) == [pct |-> 0, steps |-> NoClasses, log |-> view.log]

\* A reset that leaves the step classes as they are.
resetProgressKeepsSteps(view) == [pct |-> 0, steps |-> view.steps, log |-> <<>>]

\* resetProgress(): the view [pct, steps, log] it leaves of the view it finds.
resetProgress(view) == [pct |-> 0, steps |-> NoClasses, log |-> <<>>]

\* A markAllStepsDone that touches no step.
markAllStepsDoneSkipped(classes) == classes

\* markAllStepsDone(): the step classes it leaves.
markAllStepsDone(classes) == [i \in StepIdx |-> (classes[i] \ {"active"}) \cup {"done"}]

\* The loop with the observed stage itself marked done (i <= idx).
updateStepsInclusive(classes, step, status) ==
    LET idx == IndexOf(step) IN
    IF idx >= 0
    THEN [i \in StepIdx |-> IF i <= idx THEN {"done"} ELSE {}]
    ELSE classes

\* The step-indicator loop of handleProgressEvent.
updateSteps(classes, step, status) ==
    LET idx == IndexOf(step) IN
    IF idx >= 0
    THEN [i \in StepIdx |->
            IF i < idx THEN {"done"}
            ELSE IF i = idx THEN (IF status = "complete" THEN {"done"} ELSE {"active"})
            ELSE {}]
    ELSE classes

\* The percentage handleProgressEvent leaves (bar update, then markAllStepsDone).
pctAfter(pct, ev) ==
    IF ev.status = "complete" THEN 100
    ELSE IF ev.progress >= 0 THEN ev.progress
    ELSE pct

\* The step classes handleProgressEvent leaves.
stepsAfter(classes, ev) ==
    IF ev.status = "complete"
    THEN markAllStepsDone(updateSteps(classes, ev.step, ev.status))
    ELSE updateSteps(classes, ev.step, ev.status)

\* An append that does not look at the step: heartbeats are logged too.
logAfterAnyStep(log, ev) ==
    IF ev.message # "" THEN Append(log, ev.message) ELSE log

\* The log handleProgressEvent leaves (appendLog; the time stamp is left out).
logAfter(log, ev) ==
    IF ev.message # "" /\ ev.step # "heartbeat" THEN Append(log, ev.message) ELSE log

\* handleProgressEvent on a view [pct, steps, log].
viewAfter(view, ev) ==
    [pct   |-> pctAfter(view.pct, ev),
     steps |-> stepsAfter(view.steps, ev),
     log   |-> logAfter(view.log, ev)]

\* The recognised stage observations since the last reset, one event later.
obsAfter(o, ev) ==
    LET idx == IndexOf(ev.step) IN
    [hi       |-> IF idx > o.hi THEN idx ELSE o.hi,
     mono     |-> o.mono /\ (idx < 0 \/ idx >= o.hi),
     complete |-> o.complete \/ ev.status = "complete"]

NoObs == [hi |-> -1, mono |-> TRUE, complete |-> FALSE]

\* handleProgressEvent(ev, jobId)
handleProgressEvent(ev, jobId) ==
    /\ progressPct' = pctAfter(progressPct, ev)
    /\ stepClass' = stepsAfter(stepClass, ev)
    /\ logBox' = logAfter(logBox, ev)
    /\ IF ev.status = "complete"
       THEN /\ resultMeta' = ev.message
            /\ downloadHref' = jobId
            /\ resultHidden' = FALSE
       ELSE UNCHANGED <<resultMeta, downloadHref, resultHidden>>
    /\ toast' = IF ev.status = "complete" THEN showToast(tr("toastComplete"), "success")
                ELSE IF ev.status = "error"
                THEN showToast(IF ev.message # "" THEN ev.message
                               ELSE "An error occurred during processing.", "error")
                ELSE toast
    /\ terminals' = IF ev.status \in {"complete", "error"}
                    THEN [terminals EXCEPT ![jobId] = @ + 1] ELSE terminals
    /\ obs' = obsAfter(obs, ev)
    /\ freshView' = viewAfter(freshView, ev)

\* A test that forgets the error status.
dubIsTerminalCompleteOnly(ev) == ev.status = "complete"

\* The test that ends the stream in the Dub onmessage handler.
dubIsTerminal(ev) == ev.status = "complete" \/ ev.status = "error"

\* A message that ignores the body's detail.
dubErrorMessageGeneric(detail, status) == ServerErrorText(status)

\* err.detail || `Server error ${res.status}` of the dub request.
dubErrorMessage(detail, status) ==
    IF detail # NoDetail /\ detail # "" THEN detail ELSE ServerErrorText(status)

\* err.detail || `Error ${res.status}` of the download-panel requests.
dlErrorMessage(detail, status) ==
    IF detail # NoDetail /\ detail # "" THEN detail ELSE ErrorText(status)

\* An onerror that does not close: the EventSource stays open and reconnects.
onErrorChanLeftOpen(j) == chan

\* What evtSource.onerror leaves of the EventSource of job j.
onErrorChan(j) == [chan EXCEPT ![j] = "closed"]

\* The deliveries left to the stream of job j after one that leaves the
\* EventSources as in c (what is left for a closed stream is immaterial: 0).
left(j, c) == [pending EXCEPT ![j] = IF c[j] = "open" THEN @ - 1 ELSE 0]

\* A value that falls back to a default format when no option is selected.
formatValueOrDefault == IF formatSel = 0 THEN "best" ELSE formatOptions[formatSel]

\* formatSelect.value
formatValue == IF formatSel = 0 THEN "" ELSE formatOptions[formatSel]

\* A reset that leaves the save buttons in place.
resetDlUIKeepsSave == [hidden |-> TRUE, pct |-> 0, msg |-> "", save |-> saveBtns]

\* A reset that leaves the progress section as shown as it was.
resetDlUIShown == [hidden |-> dlProgressHidden, pct |-> 0, msg |-> "", save |-> {}]

\* resetDlUI(), as the progress view [hidden, pct, msg, save] it leaves.
resetDlUI == [hidden |-> TRUE, pct |-> 0, msg |-> "", save |-> {}]

\* A list that is always built from the video formats.
formatListVideoOnly(data, type) ==
    IF data.video_formats = <<>> THEN <<"No video formats">> ELSE data.video_formats

\* The <option> values populateFormats() builds (an option without a value
\* attribute has its text as value).
formatList(data, type) ==
    LET list == IF type = "audio" THEN data.audio_formats ELSE data.video_formats IN
    IF list = <<>>
    THEN << IF type = "audio" THEN "No audio formats" ELSE "No video formats" >>
    ELSE list

\* populateFormats() with videoData = data and dlMediaType = type.
populateFormats(data, type) ==
    IF ~data.present
    THEN UNCHANGED <<dlView, formatOptions, formatSel>>
    ELSE /\ dlProgressHidden' = resetDlUI.hidden
         /\ dlPct' = resetDlUI.pct
         /\ dlMsg' = resetDlUI.msg
         /\ saveBtns' = resetDlUI.save
         /\ formatOptions' = formatList(data, type)
         /\ formatSel' = 1

(* ------------------------------- Init --------------------------------- *)

\* The page as loaded, before any handler has run, with panel m showing.
Loaded(m) ==
    /\ mode = m
    /\ toast = [msg |-> "", type |-> "error", hidden |-> TRUE]
    /\ urlInput = <<>>
    /\ submitDisabled = FALSE
    /\ dubFetch = "idle"
    /\ progressSecHidden = TRUE
    /\ progressPct = FreshView.pct
    /\ stepClass = FreshView.steps
    /\ logBox = FreshView.log
    /\ resultHidden = TRUE
    /\ resultMeta = ""
    /\ downloadHref = 0
    /\ dlUrl = <<>>
    /\ fetchInfoDisabled = FALSE
    /\ infoFetch = "idle"
    /\ infoReq = <<>>
    /\ videoData = NoVideo
    /\ dlMediaType = "video"
    /\ formatOptions = <<>>
    /\ formatSel = 0
    /\ formatSectionHidden = TRUE
    /\ dlStartDisabled = FALSE
    /\ dlFetch = "idle"
    /\ dlReq = NoReq
    /\ dlProgressHidden = TRUE
    /\ dlPct = 0
    /\ dlMsg = ""
    /\ saveBtns = {}
    /\ saveDisabled = [j \in Jobs |-> FALSE]
    /\ saveFetch = [j \in Jobs |-> "idle"]
    /\ savedName = <<>>
    /\ lastDone = 0
    /\ invalidated = FALSE
    /\ videoUrl = <<>>
    /\ nextJob = 0
    /\ jobKind = [j \in Jobs |-> "none"]
    /\ jobReq = [j \in Jobs |-> NoReq]
    /\ chan = [j \in Jobs |-> "none"]
    /\ pending = [j \in Jobs |-> 0]
    /\ terminals = [j \in Jobs |-> 0]
    /\ closes = [j \in Jobs |-> 0]
    /\ unlocks = [j \in Jobs |-> 0]
    /\ obs = NoObs
    /\ freshView = FreshView

\* The page opens on the Dub form.
Init == Loaded("dub")

\* The page once the user has picked a mode tab: the tab handler shows one
\* panel and hides the other (and the Dub progress and result sections,
\* which are still hidden).
InitPanel == \E m \in {"dub", "download"} : Loaded(m)

(* ----------------------------- page chrome ---------------------------- *)

\* The transport has something more for a stream the page has closed:
\* a closed EventSource dispatches nothing, no handler runs.
StreamDrop(j) ==
    /\ chan[j] = "closed"
    /\ UNCHANGED vars

(* ------------------------------ Dub flow ------------------------------ *)

\* The user types in #video-url (the Dub form is visible).
EditUrl ==
    /\ mode = "dub"
    /\ \E u \in UrlTexts : urlInput' = u
    /\ UNCHANGED <<chrome, submitDisabled, dubFetch, dubView, dubHist, dlVars, jobVars>>

\* A submit handler that locks and resets but leaves the result section as
\* it is.
DubSubmitKeepsResult ==
    /\ mode = "dub"
    /\ ~submitDisabled
    /\ IF Trim(urlInput) = <<>>
       THEN /\ toast' = showToast(tr("toastNoUrl"), "error")
            /\ UNCHANGED <<submitDisabled, dubFetch, dubView, dubHist>>
       ELSE /\ submitDisabled' = TRUE
            /\ progressPct' = resetProgress(DubView).pct
            /\ stepClass' = resetProgress(DubView).steps
            /\ logBox' = resetProgress(DubView).log
            /\ progressSecHidden' = FALSE
            /\ dubFetch' = "pending"
            /\ obs' = NoObs
            /\ freshView' = resetProgress(FreshView)
            /\ UNCHANGED <<toast, resultHidden, resultMeta, downloadHref>>
    /\ UNCHANGED <<mode, urlInput, dlVars, jobVars>>

\* Submit handler of #dub-form up to its await.  A disabled submit button
\* blocks the form's submission, and a hidden form cannot be submitted.
DubSubmit ==
    /\ mode = "dub"
    /\ ~submitDisabled
    /\ IF Trim(urlInput) = <<>>
       THEN /\ toast' = showToast(tr("toastNoUrl"), "error")
            /\ UNCHANGED <<submitDisabled, dubFetch, dubView, dubHist>>
       ELSE /\ submitDisabled' = TRUE
            /\ resultHidden' = TRUE
            /\ progressPct' = resetProgress(DubView).pct
            /\ stepClass' = resetProgress(DubView).steps
            /\ logBox' = resetProgress(DubView).log
            /\ progressSecHidden' = FALSE
            /\ dubFetch' = "pending"
            /\ obs' = NoObs
            /\ freshView' = resetProgress(FreshView)
            /\ UNCHANGED <<toast, resultMeta, downloadHref>>
    /\ UNCHANGED <<mode, urlInput, dlVars, jobVars>>

\* A catch block that shows the message and leaves the form locked.
DubHttpErrorStaysLocked(status, detail) ==
    /\ toast' = showToast(dubErrorMessage(detail, status), "error")
    /\ UNCHANGED submitDisabled
    /\ UNCHANGED jobVars

\* The submit handler's path for a non-ok response: throw, catch, unlockForm.
DubHttpError(status, detail) ==
    /\ toast' = showToast(dubErrorMessage(detail, status), "error")
    /\ submitDisabled' = FALSE
    /\ UNCHANGED jobVars

\* Continuation of the submit handler when POST /api/dub settles.
DubResponse ==
    /\ dubFetch = "pending"
    /\ dubFetch' = "idle"
    /\ \/ \E m \in FetchFailures :
            /\ toast' = showToast(m, "error")
            /\ submitDisabled' = FALSE
            /\ UNCHANGED jobVars
       \/ \E status \in HttpErrorStatus, detail \in Details : DubHttpError(status, detail)
       \/ /\ nextJob < MaxJobs
          /\ LET j == nextJob + 1 IN
                /\ nextJob' = j
                /\ jobKind' = [jobKind EXCEPT ![j] = "dub"]
                /\ chan' = [chan EXCEPT ![j] = "open"]
                /\ pending' = [pending EXCEPT ![j] = MaxEvents]
          /\ UNCHANGED <<toast, submitDisabled, jobReq, jobHist>>
    /\ UNCHANGED <<mode, urlInput, dubView, dubHist, dlVars>>

\* The body of the Dub onmessage handler once the payload has parsed to ev.
DubOnEvent(j, ev) ==
    /\ handleProgressEvent(ev, j)
    /\ IF dubIsTerminal(ev)
       THEN /\ chan' = [chan EXCEPT ![j] = "closed"]
            /\ closes' = [closes EXCEPT ![j] = @ + 1]
            /\ submitDisabled' = FALSE
            /\ unlocks' = [unlocks EXCEPT ![j] = @ + 1]
       ELSE UNCHANGED <<chan, closes, submitDisabled, unlocks>>

\* A catch block that treats a bad payload as the end of the stream.
DubOnMalformedSurfaced(j) ==
    /\ toast' = showToast(tr("toastDisconnect"), "error")
    /\ chan' = [chan EXCEPT ![j] = "closed"]
    /\ closes' = [closes EXCEPT ![j] = @ + 1]
    /\ terminals' = [terminals EXCEPT ![j] = @ + 1]
    /\ submitDisabled' = FALSE
    /\ unlocks' = [unlocks EXCEPT ![j] = @ + 1]
    /\ UNCHANGED <<dubView, dubHist>>

\* The Dub onmessage handler on a payload for which JSON.parse (or the
\* destructuring of its value) throws: caught, logged to the console.
DubOnMalformed(j) ==
    UNCHANGED <<toast, dubView, dubHist, chan, terminals, closes, unlocks, submitDisabled>>

\* evtSource.onmessage of connectSSE(j), the stream carrying events of E.
DubOnMessage(j, E) ==
    /\ jobKind[j] = "dub" /\ chan[j] = "open" /\ pending[j] > 0
    /\ \/ \E ev \in E : DubOnEvent(j, ev)
       \/ DubOnMalformed(j)
    /\ pending' = left(j, chan')
    /\ UNCHANGED <<mode, urlInput, dubFetch, progressSecHidden, dlVars, jobIds>>

\* An onerror handler that closes the stream and does nothing else.
DubOnErrorCloseOnly(j) ==
    /\ jobKind[j] = "dub" /\ chan[j] = "open" /\ pending[j] > 0
    /\ chan' = onErrorChan(j)
    /\ pending' = left(j, chan')
    /\ closes' = [closes EXCEPT ![j] = @ + 1]
    /\ terminals' = [terminals EXCEPT ![j] = @ + 1]
    /\ UNCHANGED <<chrome, dubCtl, dubView, dubHist, dlVars, jobIds, unlocks>>

\* evtSource.onerror of connectSSE(j).
DubOnError(j) ==
    /\ jobKind[j] = "dub" /\ chan[j] = "open" /\ pending[j] > 0
    /\ chan' = onErrorChan(j)
    /\ pending' = left(j, chan')
    /\ closes' = [closes EXCEPT ![j] = @ + 1]
    /\ toast' = showToast(tr("toastDisconnect"), "error")
    /\ terminals' = [terminals EXCEPT ![j] = @ + 1]
    /\ submitDisabled' = FALSE
    /\ unlocks' = [unlocks EXCEPT ![j] = @ + 1]
    /\ UNCHANGED <<mode, urlInput, dubFetch, dubView, dubHist, dlVars, jobIds>>

(* --------------------------- Download panel --------------------------- *)

\* A download is under way: its start request is not answered yet, or its
\* stream is open.
inFlight ==
    dlFetch = "pending" \/ \E j \in Jobs : jobKind[j] = "dl" /\ chan[j] = "open"

\* The user types one of the texts U in #dl-url (the Download panel is visible).
EditDlUrlTo(U) ==
    /\ mode = "download"
    /\ \E u \in U : dlUrl' = u
    /\ UNCHANGED <<chrome, dubVars, fetchInfoDisabled, infoFetch, infoReq, dlStartDisabled,
                   dlFetch, dlReq, dlData, dlView, dlSave, dlHist, jobVars>>

EditDlUrl == EditDlUrlTo(UrlTexts)

\* Click on a Video / Audio type button.
ClickType ==
    /\ mode = "download"
    /\ \E t \in MediaTypes :
        /\ dlMediaType' = t
        /\ populateFormats(videoData, t)
    /\ invalidated' = (invalidated \/ inFlight)
    /\ UNCHANGED <<chrome, dubVars, dlCtl, videoData, formatSectionHidden, dlSave,
                   lastDone, videoUrl, jobVars>>

\* The user picks another option of #format-select: its change listener is resetDlUI.
ChangeFormat ==
    /\ mode = "download" /\ ~formatSectionHidden
    /\ \E k \in 1..Len(formatOptions) :
        /\ k # formatSel
        /\ formatSel' = k
    /\ dlProgressHidden' = resetDlUI.hidden
    /\ dlPct' = resetDlUI.pct
    /\ dlMsg' = resetDlUI.msg
    /\ saveBtns' = resetDlUI.save
    /\ invalidated' = (invalidated \/ inFlight)
    /\ UNCHANGED <<chrome, dubVars, dlCtl, videoData, dlMediaType, formatOptions,
                   formatSectionHidden, dlSave, lastDone, videoUrl, jobVars>>

\* Click handler of #fetch-info-btn up to its await.
FetchInfoClick ==
    /\ mode = "download"
    /\ ~fetchInfoDisabled
    /\ IF Trim(dlUrl) = <<>>
       THEN /\ toast' = showToast(tr("toastNoUrl"), "error")
            /\ UNCHANGED <<fetchInfoDisabled, infoFetch, infoReq>>
       ELSE /\ fetchInfoDisabled' = TRUE
            /\ infoFetch' = "pending"
            /\ infoReq' = Trim(dlUrl)
            /\ UNCHANGED toast
    /\ UNCHANGED <<mode, dubVars, dlUrl, dlStartDisabled, dlFetch, dlReq, dlData, dlView,
                   dlSave, dlHist, jobVars>>

\* The fetch-info handler's catch block, with err.message = msg.
FetchInfoFail(msg) ==
    /\ toast' = showToast(msg, "error")
    /\ UNCHANGED <<dlData, dlView, videoUrl>>

\* The fetch-info handler after a successful response with body data.
FetchInfoOk(data) ==
    /\ videoData' = data
    /\ videoUrl' = infoReq
    /\ populateFormats(data, dlMediaType)
    /\ formatSectionHidden' = FALSE
    /\ UNCHANGED <<toast, dlMediaType>>

\* Continuation of the fetch-info handler when POST /api/video-info settles.
FetchInfoResponse ==
    /\ infoFetch = "pending"
    /\ infoFetch' = "idle"
    /\ infoReq' = <<>>
    /\ fetchInfoDisabled' = FALSE
    /\ \/ \E m \in FetchFailures : FetchInfoFail(m)
       \/ \E status \in HttpErrorStatus, detail \in Details :
            FetchInfoFail(dlErrorMessage(detail, status))
       \/ \E data \in VideoInfos : FetchInfoOk(data)
    /\ UNCHANGED <<mode, dubVars, dlUrl, dlStartDisabled, dlFetch, dlReq, dlSave, lastDone,
                   invalidated, jobVars>>

\* Click handler of #dl-start-btn up to its await.  A disabled button gets no click.
DlStartClick ==
    /\ mode = "download"
    /\ ~dlStartDisabled
    /\ IF Trim(dlUrl) = <<>> \/ formatValue = ""
       THEN UNCHANGED <<dlStartDisabled, dlFetch, dlReq, dlView, invalidated>>
       ELSE /\ dlStartDisabled' = TRUE
            /\ dlProgressHidden' = FALSE
            /\ dlPct' = 0
            /\ dlMsg' = tr("dlDownloading")
            /\ saveBtns' = resetDlUI.save
            /\ dlFetch' = "pending"
            /\ dlReq' = [url |-> Trim(dlUrl), format_id |-> formatValue,
                         media_type |-> dlMediaType]
            /\ invalidated' = FALSE
    /\ UNCHANGED <<chrome, dubVars, dlUrl, fetchInfoDisabled, infoFetch, infoReq, dlData,
                   dlSave, lastDone, videoUrl, jobVars>>

\* Continuation of the start handler when POST /api/download-start settles.
DlStartResponse ==
    /\ dlFetch = "pending"
    /\ dlFetch' = "idle"
    /\ dlReq' = NoReq
    /\ \/ \E m \in FetchFailures :
            /\ toast' = showToast(m, "error")
            /\ dlStartDisabled' = FALSE
            /\ UNCHANGED jobVars
       \/ \E status \in HttpErrorStatus, detail \in Details :
            /\ toast' = showToast(dlErrorMessage(detail, status), "error")
            /\ dlStartDisabled' = FALSE
            /\ UNCHANGED jobVars
       \/ /\ nextJob < MaxJobs
          /\ LET j == nextJob + 1 IN
                /\ nextJob' = j
                /\ jobKind' = [jobKind EXCEPT ![j] = "dl"]
                /\ jobReq' = [jobReq EXCEPT ![j] = dlReq]
                /\ chan' = [chan EXCEPT ![j] = "open"]
                /\ pending' = [pending EXCEPT ![j] = MaxEvents]
          /\ UNCHANGED <<toast, dlStartDisabled, jobHist>>
    /\ UNCHANGED <<mode, dubVars, dlUrl, fetchInfoDisabled, infoFetch, infoReq, dlData,
                   dlView, dlSave, dlHist>>

\* A handler whose error branch does not close the EventSource.
dlChanAfterErrorOpen(j, ev) ==
    IF ev.status = "complete" THEN [chan EXCEPT ![j] = "closed"] ELSE chan

\* What the Download onmessage handler does with the EventSource on event ev.
dlChanAfter(j, ev) ==
    IF ev.status = "complete" \/ ev.status = "error"
    THEN [chan EXCEPT ![j] = "closed"]
    ELSE chan

\* A complete branch that reads the job id under a key the response does
\* not have: the button is bound to no job.
saveBtnsAfterCompleteNoId(j) == {0}

\* The .dl-save-btn buttons after the complete branch for job j: the old
\* ones removed, one appended whose onclick closes over j.
saveBtnsAfterComplete(j) == {j}

\* The body of the Download onmessage handler once the payload has parsed to ev.
DlOnEvent(j, ev) ==
    /\ dlPct' = IF ev.progress >= 0 /\ ev.progress <= 100 THEN ev.progress ELSE dlPct
    /\ dlMsg' = IF ev.message # "" THEN ev.message
                ELSE IF ev.status = "complete" THEN tr("dlComplete")
                ELSE dlMsg
    /\ chan' = dlChanAfter(j, ev)
    /\ IF ev.status = "complete"
       THEN /\ saveBtns' = saveBtnsAfterComplete(j)
            /\ lastDone' = j
            /\ UNCHANGED toast
       ELSE IF ev.status = "error"
       THEN /\ toast' = showToast(IF ev.message # "" THEN ev.message
                                  ELSE "Download failed", "error")
            /\ UNCHANGED <<saveBtns, lastDone>>
       ELSE UNCHANGED <<toast, saveBtns, lastDone>>
    /\ IF ev.status \in {"complete", "error"}
       THEN /\ closes' = [closes EXCEPT ![j] = @ + 1]
            /\ terminals' = [terminals EXCEPT ![j] = @ + 1]
            /\ dlStartDisabled' = FALSE
            /\ unlocks' = [unlocks EXCEPT ![j] = @ + 1]
       ELSE UNCHANGED <<terminals, closes, unlocks, dlStartDisabled>>

\* A catch block that gives the start button back and leaves the stream open.
DlOnMalformedUnlocks(j) ==
    /\ dlStartDisabled' = FALSE
    /\ UNCHANGED <<toast, dlPct, dlMsg, saveBtns, lastDone, chan, terminals, closes, unlocks>>

\* The Download onmessage handler on a payload for which JSON.parse (or the
\* first read of a field of its value) throws: caught, logged to the console.
DlOnMalformed(j) ==
    UNCHANGED <<toast, dlPct, dlMsg, saveBtns, lastDone, chan, terminals, closes,
                   unlocks, dlStartDisabled>>

\* evtSource.onmessage of the download job j, the stream carrying events of E.
DlOnMessage(j, E) ==
    /\ jobKind[j] = "dl" /\ chan[j] = "open" /\ pending[j] > 0
    /\ \/ \E ev \in E : DlOnEvent(j, ev)
       \/ DlOnMalformed(j)
    /\ pending' = left(j, chan')
    /\ UNCHANGED <<mode, dubVars, dlUrl, fetchInfoDisabled, infoFetch, infoReq, dlFetch,
                   dlReq, dlData, dlProgressHidden, dlSave, invalidated, videoUrl, jobIds>>

\* evtSource.onerror of the download job j.
DlOnError(j) ==
    /\ jobKind[j] = "dl" /\ chan[j] = "open" /\ pending[j] > 0
    /\ chan' = onErrorChan(j)
    /\ pending' = left(j, chan')
    /\ closes' = [closes EXCEPT ![j] = @ + 1]
    /\ toast' = showToast(tr("toastDisconnect"), "error")
    /\ terminals' = [terminals EXCEPT ![j] = @ + 1]
    /\ dlStartDisabled' = FALSE
    /\ unlocks' = [unlocks EXCEPT ![j] = @ + 1]
    /\ UNCHANGED <<mode, dubVars, dlUrl, fetchInfoDisabled, infoFetch, infoReq, dlFetch,
                   dlReq, dlData, dlView, dlSave, dlHist, jobIds>>

(* ----------------------------- save button ---------------------------- *)

Unsafe == {"\\", "/", ":", "*", "?", "\"", "<", ">", "|"}

\* A replace without the g flag: only the first match is replaced.
RECURSIVE replaceUnsafeFirst(_)
replaceUnsafeFirst(title) ==
    IF title = <<>> THEN <<>>
    ELSE IF Head(title) \in Unsafe THEN <<"_">> \o Tail(title)
    ELSE <<Head(title)>> \o replaceUnsafeFirst(Tail(title))

\* title.replace(/[\\/:*?"<>|]/g, "_")
RECURSIVE replaceUnsafe(_)
replaceUnsafe(title) ==
    IF title = <<>> THEN <<>>
    ELSE << IF Head(title) \in Unsafe THEN "_" ELSE Head(title) >>
            \o replaceUnsafe(Tail(title))

\* saveName of the onclick handler: the characters of the base name, then
\* the extension as one item.
saveName(data, type) ==
    LET ext   == IF type = "audio" THEN ".mp3" ELSE ".mp4"
        title == IF data.present /\ data.title # <<>>
                 THEN replaceUnsafe(data.title) ELSE <<"download">>
    IN  Append(title, ext)

\* The user clicks the save button made for job j, up to the handler's await.
\* Only a button that is on the page, shown and enabled gets a click.
SaveClick(j) ==
    /\ mode = "download"
    /\ j \in saveBtns /\ ~dlProgressHidden /\ ~saveDisabled[j]
    /\ saveDisabled' = [saveDisabled EXCEPT ![j] = TRUE]
    /\ saveFetch' = [saveFetch EXCEPT ![j] = "pending"]
    /\ UNCHANGED <<chrome, dubVars, dlCtl, dlData, dlView, savedName, dlHist, jobVars>>

\* A catch block that leaves the button disabled.
SaveFailStaysDisabled(j) ==
    /\ toast' = showToast("Failed to save file", "error")
    /\ UNCHANGED <<saveDisabled, savedName>>

\* The save handler's catch block: the request failed, the response was not
\* ok, or its body could not be read.
SaveFail(j) ==
    /\ toast' = showToast("Failed to save file", "error")
    /\ saveDisabled' = [saveDisabled EXCEPT ![j] = FALSE]
    /\ UNCHANGED savedName

\* The save handler after the artifact has arrived: a.download, a.click().
SaveOk(j) ==
    /\ savedName' = saveName(videoData, dlMediaType)
    /\ saveDisabled' = [saveDisabled EXCEPT ![j] = FALSE]
    /\ UNCHANGED toast

\* Continuation of the save handler of job j when GET /api/download/j settles.
SaveResponse(j) ==
    /\ saveFetch[j] = "pending"
    /\ saveFetch' = [saveFetch EXCEPT ![j] = "idle"]
    /\ \/ SaveFail(j)
       \/ SaveOk(j)
    /\ UNCHANGED <<mode, dubVars, dlCtl, dlData, dlView, dlHist, jobVars>>

(* ---------------------------- specifications -------------------------- *)

\* A visit to one panel: the user opens the Dub form or the Download panel
\* and works in it; the streams carry the small event alphabet.  The two
\* flows write disjoint state apart from the toast and draw job ids from the
\* same server, so each is explored on its own rather than interleaved.
Next ==
    \/ EditUrl
    \/ DubSubmit
    \/ DubResponse
    \/ \E j \in Jobs : DubOnMessage(j, FlowEvents)
    \/ \E j \in Jobs : DubOnError(j)
    \/ EditDlUrl
    \/ ClickType
    \/ ChangeFormat
    \/ FetchInfoClick
    \/ FetchInfoResponse
    \/ DlStartClick
    \/ DlStartResponse
    \/ \E j \in Jobs : DlOnMessage(j, FlowEvents)
    \/ \E j \in Jobs : DlOnError(j)
    \/ \E j \in Jobs : StreamDrop(j)

Spec == InitPanel /\ [][Next]_vars

\* The Dub flow alone; its streams carry every event shape.
NextDub ==
    \/ EditUrl
    \/ DubSubmit
    \/ DubResponse
    \/ \E j \in Jobs : DubOnMessage(j, ProgressEvents)
    \/ \E j \in Jobs : DubOnError(j)
    \/ \E j \in Jobs : StreamDrop(j)

SpecDub == Init /\ [][NextDub]_vars

\* A visit to the Download panel in which the user also works the save
\* button of the finished download.
NextDl ==
    \/ EditDlUrl
    \/ ClickType
    \/ ChangeFormat
    \/ FetchInfoClick
    \/ FetchInfoResponse
    \/ nextJob < MaxDownloads /\ DlStartClick
    \/ DlStartResponse
    \/ \E j \in Jobs : DlOnMessage(j, FlowEvents)
    \/ \E j \in Jobs : DlOnError(j)
    \/ \E j \in Jobs : SaveClick(j)
    \/ \E j \in Jobs : SaveResponse(j)
    \/ \E j \in Jobs : StreamDrop(j)

SpecDl == Loaded("download") /\ [][NextDl]_vars

(* ------------------------------ properties ---------------------------- *)

IsBlank(s) == \A i \in 1..Len(s) : s[i] = " "

DoneSet(classes) == { i \in StepIdx : "done" \in classes[i] }
ActiveSet(classes) == { i \in StepIdx : "active" \in classes[i] }

\* A step that is not the reset of a new submission.
NoResetStep == ~(dubFetch = "idle" /\ dubFetch' = "pending")

\* C1: within one Dub job (between two resets) a stage rendered done is
\* never afterwards rendered not done or merely active, and observing stage
\* i leaves every stage with a greater index as it was.
C1_StagesMonotonic ==
    [][ /\ NoResetStep =>
            \A i \in StepIdx : "done" \in stepClass[i] => stepClass'[i] = {"done"}
        /\ \A j \in Jobs, ev \in ProgressEvents :
            (DubOnEvent(j, ev) /\ IndexOf(ev.step) >= 0 /\ ev.status # "complete") =>
                \A k \in StepIdx : k > IndexOf(ev.step) => stepClass'[k] = stepClass[k]
      ]_vars

\* C2: while a job-creation request of a kind is in flight, and in every
\* state where a progress stream of a kind is open, the submit/start control
\* of that kind is disabled.
C2_SingleJobInFlight ==
    /\ dubFetch = "pending" => submitDisabled
    /\ dlFetch = "pending" => dlStartDisabled
    /\ \A j \in Jobs : chan[j] = "open" =>
        /\ jobKind[j] = "dub" => submitDisabled
        /\ jobKind[j] = "dl" => dlStartDisabled

C2_Witness ==
    \E j \in Jobs : /\ j = 2 /\ jobKind[j] = "dl" /\ chan[j] = "open"
                    /\ pending[j] < MaxEvents /\ dlStartDisabled

\* C3: once a terminal outcome has been handled for a job its stream is
\* closed, and from then on no handler of that job runs again: nothing the
\* transport still delivers for it changes the page.
C3_NoEventAfterTerminal ==
    /\ [](\A j \in Jobs : terminals[j] > 0 => chan[j] = "closed")
    /\ [][ \A j \in Jobs : terminals[j] > 0 =>
              /\ chan'[j] = chan[j] /\ pending'[j] = pending[j]
              /\ terminals'[j] = terminals[j] /\ closes'[j] = closes[j]
              /\ unlocks'[j] = unlocks[j]
         ]_vars

C3_Witness ==
    \E j \in Jobs : /\ jobKind[j] = "dub" /\ chan[j] = "closed" /\ terminals[j] = 1
                    /\ toast.msg = "m" /\ ~submitDisabled

\* C4: for every job whose stream was opened at most one terminal outcome
\* is signalled, with one close of the stream and one unlock of the owning
\* control, none of them while the stream is open.
C4_OneTerminalOutcome ==
    \A j \in Jobs :
        /\ terminals[j] <= 1 /\ closes[j] <= 1 /\ unlocks[j] <= 1
        /\ chan[j] = "closed" => terminals[j] = 1 /\ closes[j] = 1 /\ unlocks[j] = 1
        /\ chan[j] # "closed" => terminals[j] = 0 /\ closes[j] = 0 /\ unlocks[j] = 0

C4_Witness ==
    /\ \A j \in Jobs : chan[j] = "closed" /\ closes[j] = 1 /\ unlocks[j] = 1
    /\ \E j \in Jobs : jobKind[j] = "dl"

\* C5: a transport error on an open stream closes it, shows the "lost
\* connection" toast and unlocks the owning control; a stream is opened only
\* by the continuation of a submission's request, never again for a job
\* whose stream was closed.
C5_TransportError ==
    [][ /\ \A j \in Jobs :
            /\ DubOnError(j) =>
                /\ chan'[j] = "closed"
                /\ toast' = showToast(tr("toastDisconnect"), "error")
                /\ ~submitDisabled'
            /\ DlOnError(j) =>
                /\ chan'[j] = "closed"
                /\ toast' = showToast(tr("toastDisconnect"), "error")
                /\ ~dlStartDisabled'
            /\ chan[j] = "closed" => chan'[j] = "closed"
            /\ (chan[j] # "open" /\ chan'[j] = "open") =>
                \/ dubFetch = "pending" /\ dubFetch' = "idle"
                \/ dlFetch = "pending" /\ dlFetch' = "idle"
      ]_vars

C5_Witness ==
    \E j \in Jobs : /\ jobKind[j] = "dub" /\ chan[j] = "closed"
                    /\ toast.msg = tr("toastDisconnect") /\ ~submitDisabled
                    /\ dubFetch = "idle"

\* C6 as stated: from a reset, after recognised stage observations with
\* non-decreasing indices the done stages are those up to and including the
\* highest observed index.
C6_VisitedUpToHighest ==
    (obs.mono /\ obs.hi >= 0) => DoneSet(stepClass) = { i \in StepIdx : i <= obs.hi }

\* C6 amended: from a reset, after recognised stage observations with
\* non-decreasing indices the done stages are those strictly below the
\* highest observed index and that stage is the one active stage; once an
\* event with status complete was handled every stage is done.
C6_VisitedBelowHighest ==
    (obs.mono /\ obs.hi >= 0) =>
        IF obs.complete
        THEN DoneSet(stepClass) = StepIdx /\ ActiveSet(stepClass) = {}
        ELSE /\ DoneSet(stepClass) = { i \in StepIdx : i < obs.hi }
             /\ ActiveSet(stepClass) = {obs.hi}

C6_Witness ==
    /\ obs.mono /\ obs.hi = 3 /\ ~obs.complete
    /\ \E j \in Jobs : chan[j] = "open" /\ pending[j] <= MaxEvents - 2
    /\ DoneSet(stepClass) = {0, 1, 2}

\* C7: after a reset, whatever was shown before it, the stage states, the
\* percentage and the log are those a fresh page shows after the same
\* events.
C7_ResetForgetsHistory ==
    /\ progressPct = freshView.pct
    /\ stepClass = freshView.steps
    /\ logBox = freshView.log

C7_Witness ==
    /\ nextJob = 2 /\ chan[1] = "closed" /\ chan[2] = "open"
    /\ pending[2] < MaxEvents
    /\ logBox = <<"m">> /\ progressPct = 40

\* C8: once an event with status complete was handled for a Dub job,
\* whatever step and progress it carried, every stage is done, none is
\* active, the percentage is 100 and the result section is shown with the
\* link of that job.
C8_CompleteShowsAll ==
    obs.complete =>
        /\ \A i \in StepIdx : stepClass[i] = {"done"}
        /\ progressPct = 100
        /\ ~resultHidden
        /\ downloadHref = nextJob /\ nextJob \in Jobs
        /\ jobKind[nextJob] = "dub" /\ chan[nextJob] = "closed"

C8_Witness ==
    /\ obs.complete /\ obs.hi = 1 /\ nextJob = 2
    /\ downloadHref = 2 /\ ~resultHidden

\* C9: a Dub submission with an empty or whitespace-only URL shows the
\* validation toast, issues no request, leaves the submit control as it was
\* and changes nothing of the progress view or the result section.
C9_EmptyUrlRejected ==
    [][ (DubSubmit /\ IsBlank(urlInput)) =>
            /\ toast' = showToast(tr("toastNoUrl"), "error")
            /\ dubFetch' = dubFetch /\ dubFetch = "idle"
            /\ ~submitDisabled'
            /\ UNCHANGED <<dubView, jobVars>>
      ]_vars

C9_Witness ==
    /\ urlInput = <<" ">> /\ toast.msg = tr("toastNoUrl") /\ ~toast.hidden
    /\ ~submitDisabled /\ dubFetch = "idle"
    /\ nextJob = 1 /\ ~resultHidden

\* C10: when the dub job-creation request returns a non-success status the
\* toast shows the body's detail when it has a non-empty one and
\* "Server error <status>" otherwise; the submit control ends up enabled and
\* no stream is opened.
C10_HttpErrorMessage ==
    [][ \A status \in HttpErrorStatus, detail \in Details :
          (dubFetch = "pending" /\ dubFetch' = "idle" /\ DubHttpError(status, detail)) =>
            /\ toast'.msg = (IF detail \notin {NoDetail, ""} THEN detail
                             ELSE ServerErrorText(status))
            /\ ~toast'.hidden
            /\ ~submitDisabled'
            /\ chan' = chan /\ nextJob' = nextJob
      ]_vars

C10_Witness ==
    /\ toast.msg = "queue full" /\ ~toast.hidden
    /\ ~submitDisabled /\ dubFetch = "idle"
    /\ \A j \in Jobs : chan[j] # "open"

\* C11: when a save button is on the page (a download has completed),
\* picking another format or a media type removes it and resets the download
\* progress display (hidden, 0 %, no message); a save button is put on the
\* page only by the complete event of a download job newer than every job
\* completed before, and while one is there no download is under way.
C11_ChangeRemovesSave ==
    /\ [](saveBtns # {} => videoData.present /\ ~inFlight)
    /\ [][ /\ ((ChangeFormat \/ ClickType) /\ saveBtns # {}) =>
                /\ saveBtns' = {}
                /\ dlProgressHidden' /\ dlPct' = 0 /\ dlMsg' = ""
           /\ (saveBtns' # {} /\ saveBtns' # saveBtns) =>
                \E j \in Jobs :
                    /\ saveBtns' = {j} /\ j > lastDone /\ lastDone' = j
                    /\ jobKind[j] = "dl" /\ chan[j] = "open" /\ chan'[j] = "closed"
      ]_vars

C11_Witness ==
    /\ lastDone = 1 /\ jobReq[1].format_id = "v1" /\ jobReq[1].media_type = "video"
    /\ formatSel = 2 /\ dlMediaType = "video"
    /\ saveBtns = {} /\ dlProgressHidden /\ dlPct = 0 /\ dlMsg = ""
    /\ ~dlStartDisabled

\* C12: in every state of the Download flow there is at most one save
\* button, and one that exists is bound to the download job whose complete
\* event was handled last (a job whose stream is closed).
C12_OneSaveAction ==
    /\ Cardinality(saveBtns) <= 1
    /\ \A j \in saveBtns :
        /\ j \in Jobs /\ j = lastDone
        /\ jobKind[j] = "dl" /\ chan[j] = "closed"

C12_Witness ==
    /\ saveBtns = {2} /\ lastDone = 2
    /\ jobKind[1] = "dl" /\ chan[1] = "closed" /\ jobReq[1].format_id = "v2"
    /\ jobReq[2].format_id = "a1"

\* The file name C13 states for a title and a media type.
ExpectedName(title, type) ==
    LET base == IF title = <<>> THEN <<"download">>
                ELSE [i \in 1..Len(title) |->
                        IF title[i] \in {"\\", "/", ":", "*", "?", "\"", "<", ">", "|"}
                        THEN "_" ELSE title[i]]
    IN  base \o << IF type = "audio" THEN ".mp3" ELSE ".mp4" >>

\* C13: the name a save hands to the browser is the title of the stored
\* metadata with each of \ / : * ? " < > | replaced by "_" and every other
\* character kept, or "download" when there is no title, followed by ".mp3"
\* when the media type is audio and ".mp4" otherwise.
C13_SaveName ==
    [][ \A j \in Jobs : (SaveResponse(j) /\ SaveOk(j)) =>
            savedName' = ExpectedName(videoData.title, dlMediaType)
      ]_vars

C13_Witness ==
    /\ savedName = <<"a", "_", "_", "_", "_", "_", "_", "_", "_", "_", ".", " ", "_", ".mp3">>
    /\ videoData.title = LongTitle /\ dlMediaType = "audio"
    /\ \E j \in Jobs : j \in saveBtns /\ ~saveDisabled[j] /\ saveFetch[j] = "idle"

\* C14: when an onmessage handler gets a payload that fails to parse (its
\* catch block runs), nothing of either flow's display changes (stage
\* states, percentage, log, result, download progress, save buttons), no
\* toast is shown, the stream stays open and its control locked; the
\* delivery is consumed and the stream goes on to deliver, so later messages
\* are handled as usual.
C14_MalformedDropped ==
    [][ \A j \in Jobs :
          /\ (DubOnMessage(j, FlowEvents) /\ DubOnMalformed(j)) =>
                /\ toast' = toast /\ stepClass' = stepClass /\ progressPct' = progressPct
                /\ logBox' = logBox /\ resultHidden' = resultHidden
                /\ downloadHref' = downloadHref /\ resultMeta' = resultMeta
                /\ chan'[j] = "open" /\ submitDisabled' /\ terminals'[j] = 0
                /\ pending'[j] = pending[j] - 1
          /\ (DlOnMessage(j, FlowEvents) /\ DlOnMalformed(j)) =>
                /\ toast' = toast /\ dlPct' = dlPct /\ dlMsg' = dlMsg
                /\ dlProgressHidden' = dlProgressHidden /\ saveBtns' = saveBtns
                /\ chan'[j] = "open" /\ dlStartDisabled' /\ terminals'[j] = 0
                /\ pending'[j] = pending[j] - 1
      ]_vars

\* The first delivery of the page's one Dub stream was dropped (every event
\* of this specification's streams sets the percentage, which is still 0),
\* and the stream has more to deliver.
C14_Witness ==
    /\ nextJob = 1 /\ jobKind[1] = "dub" /\ chan[1] = "open"
    /\ pending[1] = MaxEvents - 1 /\ pending[1] > 0
    /\ progressPct = 0 /\ logBox = <<>> /\ toast.hidden /\ submitDisabled

\* What the event loop guarantees: the continuation of a settled request
\* runs, and the handler of an item the transport has for an open stream
\* runs.
Fairness ==
    /\ WF_vars(DubResponse)
    /\ WF_vars(DlStartResponse)
    /\ \A j \in Jobs : WF_vars(DubOnMessage(j, FlowEvents) \/ DubOnError(j))
    /\ \A j \in Jobs : WF_vars(DlOnMessage(j, FlowEvents) \/ DlOnError(j))

\* A visit to one panel in which the user submits jobs and leaves the
\* format list as fetched.
NextLive ==
    \/ EditUrl
    \/ DubSubmit
    \/ DubResponse
    \/ \E j \in Jobs : DubOnMessage(j, FlowEvents)
    \/ \E j \in Jobs : DubOnError(j)
    \/ EditDlUrl
    \/ FetchInfoClick
    \/ FetchInfoResponse
    \/ DlStartClick
    \/ DlStartResponse
    \/ \E j \in Jobs : DlOnMessage(j, FlowEvents)
    \/ \E j \in Jobs : DlOnError(j)
    \/ \E j \in Jobs : StreamDrop(j)

SpecLive == InitPanel /\ [][NextLive]_vars /\ Fairness

\* The stream of a job of kind k is open and the transport has nothing more
\* for it: no terminal event and no error has come.
Silent(k) == \E j \in Jobs : jobKind[j] = k /\ chan[j] = "open" /\ pending[j] = 0

RequestErrorTexts(k) ==
    FetchFailures \cup
    { (IF k = "dub" THEN dubErrorMessage(d, s) ELSE dlErrorMessage(d, s)) :
        d \in Details, s \in HttpErrorStatus }

\* C15: the step in which a job-creation request fails, a stream delivers
\* a terminal event or the transport signals an error leaves the control of
\* that flow enabled, and for a failed request, a transport error or an
\* error event the toast then shows that error's message; so a locked
\* control is eventually enabled again unless its stream stays open with
\* nothing more delivered.
C15_LockedEventuallyUnlocked ==
    /\ [][ /\ (dubFetch = "pending" /\ dubFetch' = "idle" /\ chan' = chan) =>
                /\ ~submitDisabled'
                /\ ~toast'.hidden /\ toast'.type = "error"
                /\ toast'.msg \in RequestErrorTexts("dub")
           /\ (dlFetch = "pending" /\ dlFetch' = "idle" /\ chan' = chan) =>
                /\ ~dlStartDisabled'
                /\ ~toast'.hidden /\ toast'.type = "error"
                /\ toast'.msg \in RequestErrorTexts("dl")
           /\ \A j \in Jobs : (terminals'[j] # terminals[j] /\ jobKind[j] = "dub") =>
                /\ ~submitDisabled' /\ ~toast'.hidden
                /\ IF obs'.complete
                   THEN toast' = showToast(tr("toastComplete"), "success")
                   ELSE /\ toast'.type = "error"
                        /\ toast'.msg \in {tr("toastDisconnect"), "m",
                                           "An error occurred during processing."}
           /\ \A j \in Jobs : (terminals'[j] # terminals[j] /\ jobKind[j] = "dl") =>
                /\ ~dlStartDisabled'
                /\ IF lastDone' = j
                   THEN toast' = toast
                   ELSE /\ ~toast'.hidden /\ toast'.type = "error"
                        /\ toast'.msg \in {tr("toastDisconnect"), "m", "Download failed"}
         ]_vars
    /\ submitDisabled ~> (~submitDisabled \/ Silent("dub"))
    /\ dlStartDisabled ~> (~dlStartDisabled \/ Silent("dl"))

C15_Witness ==
    /\ jobKind[1] = "dl" /\ chan[1] = "closed" /\ lastDone = 0
    /\ jobKind[2] = "dl" /\ chan[2] = "closed" /\ lastDone # 2
    /\ toast.msg = "Download failed" /\ ~toast.hidden
    /\ ~dlStartDisabled /\ dlFetch = "idle"

OpenStreams(k) == { j \in Jobs : jobKind[j] = k /\ chan[j] = "open" }

\* C16: each controller (Dub, Download) has at most one open progress
\* stream; when a controller has a later job, the stream of each earlier job
\* of it is closed, and a stream handler that takes a delivery belongs to the
\* controller's newest job, so no event of an earlier job touches the
\* display of a later one.
C16_OneChannelPerController ==
    /\ [](\A k \in {"dub", "dl"} : Cardinality(OpenStreams(k)) <= 1)
    /\ [](\A i, j \in Jobs :
            (i < j /\ jobKind[i] = jobKind[j] /\ jobKind[j] # "none") => chan[i] = "closed")
    /\ [][ \A j \in Jobs : (chan[j] = "open" /\ pending'[j] # pending[j]) =>
                \A k \in Jobs : k > j => jobKind'[k] # jobKind[j]
         ]_vars

C16_Witness ==
    /\ jobKind[1] = "dl" /\ chan[1] = "closed" /\ lastDone = 1
    /\ jobKind[2] = "dl" /\ chan[2] = "open" /\ pending[2] = MaxEvents - 1
    /\ dlPct = 40 /\ saveBtns = {} /\ dlStartDisabled

\* C17: when the request for the artifact fails during a save, the toast
\* shows "Failed to save file" and the handler leaves the save buttons as
\* they are, the clicked one enabled again and bound to the same job: if it
\* is still on the page it can be clicked again, no new download needed.
C17_SaveFailureRetry ==
    [][ \A j \in Jobs : (SaveResponse(j) /\ SaveFail(j)) =>
            /\ toast' = showToast("Failed to save file", "error")
            /\ saveBtns' = saveBtns /\ lastDone' = lastDone
            /\ ~saveDisabled'[j] /\ saveFetch'[j] = "idle"
            /\ UNCHANGED <<dlProgressHidden, dlStartDisabled, dlFetch, nextJob, chan>>
      ]_vars

\* The save of job 1 has failed and a second attempt is in flight.
C17_Witness ==
    /\ toast.msg = "Failed to save file" /\ ~toast.hidden
    /\ saveBtns = {1} /\ lastDone = 1 /\ nextJob = 1
    /\ saveFetch[1] = "pending" /\ saveDisabled[1]
    /\ savedName = <<>>

\* The format list of metadata data for media type t, as C18 states it.
ListFor(data, t) == IF t = "audio" THEN data.audio_formats ELSE data.video_formats

\* C18: the fetch control is disabled exactly while the metadata request is
\* in flight, and the step that settles the request enables it and is one of
\* two: a failure, which shows an error toast and leaves the stored metadata,
\* the media type, the format list and selection, the download progress and
\* the save buttons unchanged; or a success, which shows no toast, stores the
\* received metadata whole and makes the format list that of the selected
\* media type (one placeholder option when that list is empty).
C18_FetchInfo ==
    /\ [](fetchInfoDisabled <=> infoFetch = "pending")
    /\ [][ (infoFetch = "pending" /\ infoFetch' = "idle") =>
            /\ ~fetchInfoDisabled'
            /\ \/ /\ ~toast'.hidden /\ toast'.type = "error"
                  /\ toast'.msg \in RequestErrorTexts("dl")
                  /\ UNCHANGED <<videoData, dlMediaType, formatOptions, formatSel,
                                 formatSectionHidden, dlView>>
               \/ /\ toast' = toast
                  /\ videoData' \in VideoInfos /\ dlMediaType' = dlMediaType
                  /\ IF ListFor(videoData', dlMediaType) # <<>>
                     THEN formatOptions' = ListFor(videoData', dlMediaType)
                     ELSE Len(formatOptions') = 1
                  /\ formatSel' = 1 /\ ~formatSectionHidden'
         ]_vars

\* A metadata request failed after a download had completed: the save button
\* and the progress display are as the download left them.
C18_Witness ==
    /\ toast.msg = "Error 404" /\ ~toast.hidden
    /\ ~fetchInfoDisabled /\ infoFetch = "idle"
    /\ saveBtns = {1} /\ ~dlProgressHidden /\ dlPct = 40 /\ dlMsg = tr("dlComplete")
    /\ videoData.title = <<>> /\ dlMediaType = "audio" /\ formatOptions = <<"a1">>

\* A save button bound to job j is on the page and shown.
SaveShown(j) == mode = "download" /\ j \in saveBtns /\ ~dlProgressHidden

C21_UnrecognisedStepNoEffect ==
    [][ \A j \in Jobs, ev \in ProgressEvents :
          (jobKind[j] = "dub" /\ chan[j] = "open" /\ pending'[j] # pending[j]
             /\ DubOnEvent(j, ev)) =>
            /\ IndexOf(ev.step) < 0 => stepClass' = stepClass
            /\ ev.step = "heartbeat" => logBox' = logBox
            /\ (ev.step # "heartbeat" /\ ev.message # "") =>
                    logBox' = Append(logBox, ev.message)
      ]_vars

\* C21 amended: a Dub event whose step is heartbeat or any other
\* unrecognised id and whose status is not complete leaves every stage's
\* classes unchanged (with status complete it marks every stage done, like
\* any complete event); a heartbeat appends no log line even with a message;
\* any other event with a non-empty message appends exactly that one line,
\* and one without a message appends none.
C21_UnrecognisedStepUnlessComplete ==
    [][ \A j \in Jobs, ev \in ProgressEvents :
          (jobKind[j] = "dub" /\ chan[j] = "open" /\ pending'[j] # pending[j]
             /\ DubOnEvent(j, ev)) =>
            /\ (IndexOf(ev.step) < 0 /\ ev.status # "complete") => stepClass' = stepClass
            /\ (IndexOf(ev.step) < 0 /\ ev.status = "complete") =>
                    \A i \in StepIdx : stepClass'[i] = {"done"}
            /\ ev.step = "heartbeat" => logBox' = logBox
            /\ (ev.step # "heartbeat" /\ ev.message # "") =>
                    logBox' = Append(logBox, ev.message)
            /\ ev.message = "" => logBox' = logBox
      ]_vars

\* After a download observation with a message, the stream's second event
\* had no recognised step and an out-of-range progress: the stages and the
\* one log line are as the first event left them.
C21_Witness ==
    /\ nextJob = 1 /\ jobKind[1] = "dub" /\ chan[1] = "open" /\ pending[1] = MaxEvents - 2
    /\ obs.hi = 1 /\ ~obs.complete
    /\ stepClass = [i \in StepIdx |-> IF i = 0 THEN {"done"} ELSE IF i = 1 THEN {"active"} ELSE {}]
    /\ logBox = <<"m">> /\ progressPct = 250

\* A job of kind k was validated and submitted and none of its stream's
\* deliveries has been handled yet: its request is pending, or its stream is
\* open with everything still to deliver.
BeforeFirstEvent(k) ==
    \/ k = "dub" /\ dubFetch = "pending"
    \/ k = "dl" /\ dlFetch = "pending"
    \/ \E j \in Jobs : jobKind[j] = k /\ chan[j] = "open" /\ pending[j] = MaxEvents

\* C22: from a validated Dub submission until the first delivery of the new
\* job's stream, every stage is neither done nor active, the percentage is
\* 0, the log is empty and the result section is hidden; from a validated
\* start of a download until the first delivery of its stream, the download
\* percentage is 0 and there is no save button.
C22_NoStateBleed ==
    /\ BeforeFirstEvent("dub") =>
        /\ \A i \in StepIdx : stepClass[i] = {}
        /\ progressPct = 0 /\ logBox = <<>> /\ resultHidden
    /\ BeforeFirstEvent("dl") =>
        /\ dlPct = 0 /\ saveBtns = {}

\* The second Dub job's stream has just been opened; the first job ended
\* with a complete event, whose link is still in the hidden result section.
C22_Witness ==
    /\ nextJob = 2 /\ jobKind[2] = "dub" /\ chan[2] = "open" /\ pending[2] = MaxEvents
    /\ chan[1] = "closed" /\ downloadHref = 1 /\ resultMeta = "m"
    /\ resultHidden /\ logBox = <<>> /\ progressPct = 0

\* C23: the percentage shown is always within [0,100], in the Dub progress
\* section and in the Download progress section (the Download handler
\* applies an event's progress only when it is within 0..100, the Dub
\* handler whenever it is not negative).
C23_PercentageInRange ==
    /\ progressPct \in 0..100
    /\ dlPct \in 0..100

\* The extension that goes with a submitted media type.
ExtOf(type) == IF type = "audio" THEN ".mp3" ELSE ".mp4"

\* C24: the name a save of job j hands to the browser ends in the extension
\* of the media type that was sent in the download-start request of job j,
\* whatever type buttons were clicked since.
C24_ExtensionOfJob ==
    [][ \A j \in Jobs : (SaveResponse(j) /\ SaveOk(j)) =>
            savedName'[Len(savedName')] = ExtOf(jobReq[j].media_type)
      ]_vars

\* URLs of two different videos, as typed.
TwoUrls == { <<" ", "u", " ">>, <<"w">> }

\* A visit to the Download panel by a user who has two videos in mind,
\* leaves type and format as fetched and saves the finished download.
NextSave ==
    \/ EditDlUrlTo(TwoUrls)
    \/ FetchInfoClick
    \/ FetchInfoResponse
    \/ nextJob < MaxDownloads /\ DlStartClick
    \/ DlStartResponse
    \/ \E j \in Jobs : DlOnMessage(j, FlowEvents)
    \/ \E j \in Jobs : DlOnError(j)
    \/ \E j \in Jobs : SaveClick(j)
    \/ \E j \in Jobs : SaveResponse(j)
    \/ \E j \in Jobs : StreamDrop(j)

SpecSave == Loaded("download") /\ [][NextSave]_vars

\* C25: when a save of job j names the file after a title, the metadata the
\* title is taken from is that of the URL sent in the download-start request
\* of job j, whatever was typed or fetched before or since.
C25_TitleOfJob ==
    [][ \A j \in Jobs : (SaveResponse(j) /\ SaveOk(j) /\ videoData.title # <<>>) =>
            videoUrl = jobReq[j].url
      ]_vars

\* C26: whenever the Dub submit button is disabled (a Dub request is pending
\* or a Dub stream is open) the result section is hidden: the link of an
\* earlier job is not shown while a newer job runs.
C26_LockedHidesResult ==
    submitDisabled => resultHidden

\* The second Dub job is running and has had an event applied; the first
\* job's link is still in the hidden result section.
C26_Witness ==
    /\ submitDisabled /\ resultHidden
    /\ nextJob = 2 /\ jobKind[2] = "dub" /\ chan[2] = "open" /\ pending[2] < MaxEvents
    /\ chan[1] = "closed" /\ downloadHref = 1
    /\ obs.hi = 3 /\ logBox = <<"m">>

=============================================================================
